---------------------------- MODULE Spec2Model ----------------------------
(***************************************************************************)
(* Model of the HanoiVM ternary coprocessor device (src/src/DevTernary.c): *)
(* the register file DEVTERNARY, the MMIO write and read handlers and the  *)
(* five-state FSM advanced by the timer callback.                          *)
(*                                                                         *)
(* The device is parametric in the operand geometry.  The source sets      *)
(* TRIT_COUNT = 81, TRITS_PER_WORD = 16 (hence 6 words per operand, the    *)
(* last one carrying a single trit) and STACK_DEPTH = 16.  A packed word   *)
(* of 16 trits does not fit TLC's integers and a stack of 16 vectors of 81 *)
(* trits cannot be enumerated, so the model keeps the same shape at a      *)
(* smaller size: 3 trits, 2 trits per word (hence 2 words per operand, the *)
(* last one carrying a single trit) and a stack of 2 slots.  Every formula *)
(* below is stated in terms of the names TRIT_COUNT, TRITS_PER_WORD,       *)
(* WORDS_PER_OPERAND and STACK_DEPTH, never of their values.               *)
(*                                                                         *)
(* Each handler is a function from the register file before the call to    *)
(* the register file after it; the actions apply the handlers to pThis.    *)
(***************************************************************************)
EXTENDS Integers, Sequences, FiniteSets, TLC

(* ---- operand geometry (scaled, see above) ---- *)
TRIT_COUNT == 3
TRITS_PER_WORD == 2
STACK_DEPTH == 2
WORDS_PER_OPERAND == (TRIT_COUNT + TRITS_PER_WORD - 1) \div TRITS_PER_WORD

(* ---- register offsets ---- *)
TERNARY_REG_INPUT_BASE == 0
TERNARY_REG_OUTPUT_BASE == 32
TERNARY_REG_COMMAND == 64
TERNARY_REG_STATUS == 68
TERNARY_REG_OPERAND_COUNT == 72

(* ---- commands ---- *)
CMD_TERNARY_NOP == 0
CMD_TERNARY_PUSH == 1
CMD_TERNARY_POP == 2
CMD_TERNARY_ADD == 3
CMD_TERNARY_NOT == 4
CMD_TERNARY_AND == 5
CMD_TERNARY_SHA3 == 6

TRIT_MIN == -1
TRIT_MAX == 1

(* ---- FSM states ---- *)
STATE_IDLE == 0
STATE_FETCH == 1
STATE_EXECUTE == 2
STATE_WRITEBACK == 3
STATE_DONE == 4

(* ---- status flags ---- *)
STATUS_ERROR_INVALID_SIZE == 1
STATUS_ERROR_INVALID_ADDR == 2
STATUS_ERROR_STACK_OVERFLOW == 4
STATUS_ERROR_STACK_UNDERFLOW == 8
STATUS_ERROR_INVALID_COMMAND == 16

(* sizeof(uint32_t) *)
SIZEOF_UINT32 == 4

Lanes == 0 .. (TRIT_COUNT - 1)
Slots == 0 .. (STACK_DEPTH - 1)
ZeroVector == [i \in Lanes |-> 0]

(* s | flag, for a flag that is a single bit *)
HasFlag(s, flag) == (s \div flag) % 2 = 1
BitOr(s, flag) == IF HasFlag(s, flag) THEN s ELSE s + flag

(* ---- ternary operations ---- *)
(* an addition that folds an out-of-range sum the wrong way: -2 to -1 and 2 to 1 *)
ternary_add_folds_wrong_way(a, b) ==
    LET sum == a + b IN
    IF sum < TRIT_MIN THEN [result |-> sum + 1, carry |-> -1]
    ELSE IF sum > TRIT_MAX THEN [result |-> sum - 1, carry |-> 1]
    ELSE [result |-> sum, carry |-> 0]

ternary_add(a, b) ==
    LET sum == a + b IN
    IF sum < TRIT_MIN THEN [result |-> sum + 3, carry |-> -1]
    ELSE IF sum > TRIT_MAX THEN [result |-> sum - 3, carry |-> 1]
    ELSE [result |-> sum, carry |-> 0]

ternary_not(a) == 0 - a

ternary_and(a, b) == IF a < b THEN a ELSE b

ternary_sha3(in, count) == [i \in 0 .. (count - 1) |-> in[(i + 1) % count]]

(* ---- trit codec, as inlined in the MMIO handlers ---- *)
(* a decode that passes the bit pair 11 on as the digit 3 *)
DecodeBits_keeps_pair_11(value, i) ==
    LET bits == (value \div (4 ^ i)) % 4 IN
    IF bits = 2 THEN -1 ELSE bits

(* a decode that reads the codes of +1 and -1 the other way round *)
DecodeBits_codes_swapped(value, i) ==
    LET bits == (value \div (4 ^ i)) % 4 IN
    IF bits = 1 THEN -1 ELSE IF bits = 2 THEN 1 ELSE 0

DecodeBits(value, i) ==
    LET bits == (value \div (4 ^ i)) % 4 IN
    IF bits = 2 THEN -1 ELSE IF bits = 1 THEN 1 ELSE 0

MaxTrits(word_idx) ==
    IF word_idx = WORDS_PER_OPERAND - 1
    THEN TRIT_COUNT - word_idx * TRITS_PER_WORD
    ELSE TRITS_PER_WORD

(* the input array after the decode loop of a write to input word word_idx *)
DecodeWord(vec, word_idx, value) ==
    LET trit_offset == word_idx * TRITS_PER_WORD IN
    [k \in Lanes |->
        IF k >= trit_offset /\ k - trit_offset < MaxTrits(word_idx)
        THEN DecodeBits(value, k - trit_offset)
        ELSE vec[k]]

RECURSIVE EncodeFrom(_, _, _, _)
EncodeFrom(vec, trit_offset, i, n) ==
    IF i >= n \/ trit_offset + i >= TRIT_COUNT THEN 0
    ELSE LET t == vec[trit_offset + i] IN
         (IF t = -1 THEN 2 ELSE t) * (4 ^ i) + EncodeFrom(vec, trit_offset, i + 1, n)

(* the word returned by a read of output word word_idx *)
EncodeWord(vec, word_idx) ==
    EncodeFrom(vec, word_idx * TRITS_PER_WORD, 0, MaxTrits(word_idx))

InInputRange(addr) ==
    addr >= TERNARY_REG_INPUT_BASE /\ addr < TERNARY_REG_INPUT_BASE + WORDS_PER_OPERAND * 4

InOutputRange(addr) ==
    addr >= TERNARY_REG_OUTPUT_BASE /\ addr < TERNARY_REG_OUTPUT_BASE + WORDS_PER_OPERAND * 4

(* ---- device construction: the register file after devTernaryConstruct ---- *)
devTernaryConstruct ==
    [ input |-> ZeroVector,
      output |-> ZeroVector,
      stack |-> [s \in Slots |-> ZeroVector],
      stack_ptr |-> 0,
      command |-> 0,
      status |-> 0,
      operand_words |-> 0,
      operand_count |-> WORDS_PER_OPERAND,
      state |-> STATE_IDLE,
      temp_result |-> ZeroVector ]

(* an input write that starts the cycle with a clean status, as a COMMAND
   write does *)
WriteInput_arming_clears_status(d, addr, value) ==
    LET word_idx == (addr - TERNARY_REG_INPUT_BASE) \div 4
        trit_offset == word_idx * TRITS_PER_WORD
        words == d.operand_words + 1
    IN  IF trit_offset < TRIT_COUNT THEN
            IF words >= d.operand_count
            THEN [d EXCEPT !.input = DecodeWord(d.input, word_idx, value),
                           !.operand_words = 0,
                           !.status = 0,
                           !.state = STATE_FETCH]
            ELSE [d EXCEPT !.input = DecodeWord(d.input, word_idx, value),
                           !.operand_words = words]
        ELSE d

(* ---- MMIO write handler: a 4-byte write in IDLE to the input range ---- *)
WriteInput(d, addr, value) ==
    LET word_idx == (addr - TERNARY_REG_INPUT_BASE) \div 4
        trit_offset == word_idx * TRITS_PER_WORD
        \* operand_words stays below operand_count: the uint32_t never wraps
        words == d.operand_words + 1
    IN  IF trit_offset < TRIT_COUNT THEN
            IF words >= d.operand_count
            THEN [d EXCEPT !.input = DecodeWord(d.input, word_idx, value),
                           !.operand_words = 0,
                           !.state = STATE_FETCH]
            ELSE [d EXCEPT !.input = DecodeWord(d.input, word_idx, value),
                           !.operand_words = words]
        ELSE d

(* an address decoding whose OPERAND_COUNT write resets status as well *)
WriteDecode_count_clears_status(d, addr, value) ==
    IF InInputRange(addr) THEN WriteInput(d, addr, value)
    ELSE IF addr = TERNARY_REG_COMMAND THEN
        [d EXCEPT !.command = value, !.status = 0, !.state = STATE_FETCH]
    ELSE IF addr = TERNARY_REG_OPERAND_COUNT THEN
        [d EXCEPT !.operand_count = WORDS_PER_OPERAND, !.operand_words = 0, !.status = 0]
    ELSE
        [d EXCEPT !.status = BitOr(d.status, STATUS_ERROR_INVALID_ADDR)]

(* an address decoding whose OPERAND_COUNT write stores the value written *)
WriteDecode_count_configurable(d, addr, value) ==
    IF InInputRange(addr) THEN WriteInput(d, addr, value)
    ELSE IF addr = TERNARY_REG_COMMAND THEN
        [d EXCEPT !.command = value, !.status = 0, !.state = STATE_FETCH]
    ELSE IF addr = TERNARY_REG_OPERAND_COUNT THEN
        [d EXCEPT !.operand_count = value, !.operand_words = 0]
    ELSE
        [d EXCEPT !.status = BitOr(d.status, STATUS_ERROR_INVALID_ADDR)]

(* ---- MMIO write handler: the address decoding of a 4-byte write in IDLE ---- *)
WriteDecode(d, addr, value) ==
    IF InInputRange(addr) THEN WriteInput(d, addr, value)
    ELSE IF addr = TERNARY_REG_COMMAND THEN
        [d EXCEPT !.command = value, !.status = 0, !.state = STATE_FETCH]
    ELSE IF addr = TERNARY_REG_OPERAND_COUNT THEN
        [d EXCEPT !.operand_count = WORDS_PER_OPERAND, !.operand_words = 0]
    ELSE
        [d EXCEPT !.status = BitOr(d.status, STATUS_ERROR_INVALID_ADDR)]

(* a write handler that decodes the address whatever the FSM state *)
ternary_mmio_write_no_backpressure(d, addr, value, size) ==
    IF size # SIZEOF_UINT32 THEN
        [d EXCEPT !.status = BitOr(d.status, STATUS_ERROR_INVALID_SIZE)]
    ELSE WriteDecode(d, addr, value)

(* ---- MMIO write handler ---- *)
ternary_mmio_write(d, addr, value, size) ==
    IF size # SIZEOF_UINT32 THEN
        [d EXCEPT !.status = BitOr(d.status, STATUS_ERROR_INVALID_SIZE)]
    ELSE IF d.state # STATE_IDLE THEN
        d
    ELSE WriteDecode(d, addr, value)

(* ---- MMIO read handler: the value returned ---- *)
ternary_mmio_read_value(d, addr, size) ==
    IF size # SIZEOF_UINT32 THEN 0
    ELSE IF InOutputRange(addr) THEN
        LET word_idx == (addr - TERNARY_REG_OUTPUT_BASE) \div 4 IN
        IF word_idx * TRITS_PER_WORD < TRIT_COUNT
        THEN EncodeWord(d.output, word_idx)
        ELSE 0
    ELSE IF addr = TERNARY_REG_STATUS THEN d.status
    ELSE IF addr = TERNARY_REG_OPERAND_COUNT THEN d.operand_count
    ELSE 0

(* a read handler that decodes the address before it tests the width *)
ternary_mmio_read_size_tested_late(d, addr, size) ==
    IF InOutputRange(addr) /\ ((addr - TERNARY_REG_OUTPUT_BASE) \div 4) * TRITS_PER_WORD < TRIT_COUNT
    THEN d
    ELSE IF addr = TERNARY_REG_STATUS THEN d
    ELSE IF addr = TERNARY_REG_OPERAND_COUNT THEN d
    ELSE IF size # SIZEOF_UINT32 THEN
        [d EXCEPT !.status = BitOr(d.status, STATUS_ERROR_INVALID_SIZE)]
    ELSE
        [d EXCEPT !.status = BitOr(d.status, STATUS_ERROR_INVALID_ADDR)]

(* a read handler whose STATUS register is cleared by reading it *)
ternary_mmio_read_clears_status(d, addr, size) ==
    IF size # SIZEOF_UINT32 THEN
        [d EXCEPT !.status = BitOr(d.status, STATUS_ERROR_INVALID_SIZE)]
    ELSE IF InOutputRange(addr) THEN d
    ELSE IF addr = TERNARY_REG_STATUS THEN [d EXCEPT !.status = 0]
    ELSE IF addr = TERNARY_REG_OPERAND_COUNT THEN d
    ELSE
        [d EXCEPT !.status = BitOr(d.status, STATUS_ERROR_INVALID_ADDR)]

(* ---- MMIO read handler: the register file after the call ---- *)
ternary_mmio_read(d, addr, size) ==
    IF size # SIZEOF_UINT32 THEN
        [d EXCEPT !.status = BitOr(d.status, STATUS_ERROR_INVALID_SIZE)]
    ELSE IF InOutputRange(addr) THEN
        LET word_idx == (addr - TERNARY_REG_OUTPUT_BASE) \div 4 IN
        IF word_idx * TRITS_PER_WORD < TRIT_COUNT
        THEN d
        ELSE [d EXCEPT !.status = BitOr(d.status, STATUS_ERROR_INVALID_ADDR)]
    ELSE IF addr = TERNARY_REG_STATUS THEN d
    ELSE IF addr = TERNARY_REG_OPERAND_COUNT THEN d
    ELSE
        [d EXCEPT !.status = BitOr(d.status, STATUS_ERROR_INVALID_ADDR)]

(* ---- EXECUTE: one definition per case of the switch on command ---- *)
ExecNop(d) == [d EXCEPT !.temp_result = ZeroVector]

(* an ADD that stores the sum in the slot it pops, not in the new top slot *)
ExecAdd_stores_in_popped_slot(d) ==
    IF d.stack_ptr >= 2 THEN
        LET res == [i \in Lanes |->
                      ternary_add(d.stack[d.stack_ptr - 1][i],
                                  d.stack[d.stack_ptr - 2][i]).result]
        IN  [d EXCEPT !.temp_result = res,
                      !.stack_ptr = d.stack_ptr - 1,
                      !.stack[d.stack_ptr - 1] = res]
    ELSE [d EXCEPT !.status = BitOr(d.status, STATUS_ERROR_STACK_UNDERFLOW)]

ExecAdd(d) ==
    IF d.stack_ptr >= 2 THEN
        LET res == [i \in Lanes |->
                      ternary_add(d.stack[d.stack_ptr - 1][i],
                                  d.stack[d.stack_ptr - 2][i]).result]
            sp == d.stack_ptr - 1
        IN  [d EXCEPT !.temp_result = res,
                      !.stack_ptr = sp,
                      !.stack[sp - 1] = res]
    ELSE [d EXCEPT !.status = BitOr(d.status, STATUS_ERROR_STACK_UNDERFLOW)]

(* a NOT that leaves the top slot as it was and only reports the negation *)
ExecNot_result_only(d) ==
    IF d.stack_ptr >= 1 THEN
        [d EXCEPT !.temp_result = [i \in Lanes |-> ternary_not(d.stack[d.stack_ptr - 1][i])]]
    ELSE [d EXCEPT !.status = BitOr(d.status, STATUS_ERROR_STACK_UNDERFLOW)]

ExecNot(d) ==
    IF d.stack_ptr >= 1 THEN
        LET res == [i \in Lanes |-> ternary_not(d.stack[d.stack_ptr - 1][i])]
        IN  [d EXCEPT !.temp_result = res,
                      !.stack[d.stack_ptr - 1] = res]
    ELSE [d EXCEPT !.status = BitOr(d.status, STATUS_ERROR_STACK_UNDERFLOW)]

ExecAnd(d) ==
    IF d.stack_ptr >= 2 THEN
        LET res == [i \in Lanes |->
                      ternary_and(d.stack[d.stack_ptr - 1][i],
                                  d.stack[d.stack_ptr - 2][i])]
            sp == d.stack_ptr - 1
        IN  [d EXCEPT !.temp_result = res,
                      !.stack_ptr = sp,
                      !.stack[sp - 1] = res]
    ELSE [d EXCEPT !.status = BitOr(d.status, STATUS_ERROR_STACK_UNDERFLOW)]

(* a PUSH whose bound test is off by one *)
ExecPush_off_by_one(d) ==
    IF d.stack_ptr <= STACK_DEPTH THEN
        [d EXCEPT !.stack = [s \in Slots |-> IF s = d.stack_ptr THEN d.input ELSE @[s]],
                  !.temp_result = d.input,
                  !.stack_ptr = d.stack_ptr + 1]
    ELSE [d EXCEPT !.status = BitOr(d.status, STATUS_ERROR_STACK_OVERFLOW)]

ExecPush(d) ==
    IF d.stack_ptr < STACK_DEPTH THEN
        [d EXCEPT !.stack[d.stack_ptr] = d.input,
                  !.temp_result = d.input,
                  !.stack_ptr = d.stack_ptr + 1]
    ELSE [d EXCEPT !.status = BitOr(d.status, STATUS_ERROR_STACK_OVERFLOW)]

(* a POP that clears the result buffer when the stack is empty *)
ExecPop_underflow_clears_result(d) ==
    IF d.stack_ptr > 0 THEN
        [d EXCEPT !.stack_ptr = d.stack_ptr - 1,
                  !.temp_result = d.stack[d.stack_ptr - 1]]
    ELSE [d EXCEPT !.status = BitOr(d.status, STATUS_ERROR_STACK_UNDERFLOW),
                   !.temp_result = ZeroVector]

(* a POP that returns the oldest vector, not the newest *)
ExecPop_returns_bottom(d) ==
    IF d.stack_ptr > 0 THEN
        [d EXCEPT !.stack_ptr = d.stack_ptr - 1,
                  !.temp_result = d.stack[0]]
    ELSE [d EXCEPT !.status = BitOr(d.status, STATUS_ERROR_STACK_UNDERFLOW)]

(* a POP that decrements stack_ptr without testing it *)
ExecPop_unguarded(d) ==
    [d EXCEPT !.stack_ptr = d.stack_ptr - 1,
              !.temp_result = IF d.stack_ptr > 0 THEN d.stack[d.stack_ptr - 1] ELSE ZeroVector]

ExecPop(d) ==
    IF d.stack_ptr > 0 THEN
        [d EXCEPT !.stack_ptr = d.stack_ptr - 1,
                  !.temp_result = d.stack[d.stack_ptr - 1]]
    ELSE [d EXCEPT !.status = BitOr(d.status, STATUS_ERROR_STACK_UNDERFLOW)]

(* the stack slot indices the EXECUTE case of d.command reads or writes *)
StackAccesses(d) ==
    CASE d.command \in {CMD_TERNARY_ADD, CMD_TERNARY_AND} ->
            IF d.stack_ptr >= 2 THEN {d.stack_ptr - 1, d.stack_ptr - 2} ELSE {}
      [] d.command = CMD_TERNARY_NOT ->
            IF d.stack_ptr >= 1 THEN {d.stack_ptr - 1} ELSE {}
      [] d.command = CMD_TERNARY_PUSH ->
            IF d.stack_ptr < STACK_DEPTH THEN {d.stack_ptr} ELSE {}
      [] d.command = CMD_TERNARY_POP ->
            IF d.stack_ptr > 0 THEN {d.stack_ptr - 1} ELSE {}
      [] OTHER -> {}

ExecSha3(d) == [d EXCEPT !.temp_result = ternary_sha3(d.input, TRIT_COUNT)]

ExecDefault(d) == [d EXCEPT !.status = BitOr(d.status, STATUS_ERROR_INVALID_COMMAND)]

Execute(d) ==
    CASE d.command = CMD_TERNARY_NOP -> ExecNop(d)
      [] d.command = CMD_TERNARY_ADD -> ExecAdd(d)
      [] d.command = CMD_TERNARY_NOT -> ExecNot(d)
      [] d.command = CMD_TERNARY_AND -> ExecAnd(d)
      [] d.command = CMD_TERNARY_PUSH -> ExecPush(d)
      [] d.command = CMD_TERNARY_POP -> ExecPop(d)
      [] d.command = CMD_TERNARY_SHA3 -> ExecSha3(d)
      [] OTHER -> ExecDefault(d)

(* a state machine whose WRITEBACK returns straight to IDLE *)
ternary_process_state_skip_done(d) ==
    CASE d.state = STATE_IDLE -> d
      [] d.state = STATE_FETCH -> [d EXCEPT !.state = STATE_EXECUTE]
      [] d.state = STATE_EXECUTE -> [Execute(d) EXCEPT !.state = STATE_WRITEBACK]
      [] d.state = STATE_WRITEBACK -> [d EXCEPT !.output = d.temp_result,
                                                !.state = STATE_IDLE]
      [] d.state = STATE_DONE -> [d EXCEPT !.state = STATE_IDLE]

(* a state machine whose EXECUTE goes straight to DONE when the command failed *)
ternary_process_state_error_skips_writeback(d) ==
    CASE d.state = STATE_IDLE -> d
      [] d.state = STATE_FETCH -> [d EXCEPT !.state = STATE_EXECUTE]
      [] d.state = STATE_EXECUTE ->
            IF Execute(d).status # d.status
            THEN [Execute(d) EXCEPT !.state = STATE_DONE]
            ELSE [Execute(d) EXCEPT !.state = STATE_WRITEBACK]
      [] d.state = STATE_WRITEBACK -> [d EXCEPT !.output = d.temp_result,
                                                !.state = STATE_DONE]
      [] d.state = STATE_DONE -> [d EXCEPT !.state = STATE_IDLE]

(* a state machine that never leaves DONE *)
ternary_process_state_done_sticks(d) ==
    CASE d.state = STATE_IDLE -> d
      [] d.state = STATE_FETCH -> [d EXCEPT !.state = STATE_EXECUTE]
      [] d.state = STATE_EXECUTE -> [Execute(d) EXCEPT !.state = STATE_WRITEBACK]
      [] d.state = STATE_WRITEBACK -> [d EXCEPT !.output = d.temp_result,
                                                !.state = STATE_DONE]
      [] d.state = STATE_DONE -> d

(* a state machine whose WRITEBACK leaves output as it was *)
ternary_process_state_writeback_keeps_output(d) ==
    CASE d.state = STATE_IDLE -> d
      [] d.state = STATE_FETCH -> [d EXCEPT !.state = STATE_EXECUTE]
      [] d.state = STATE_EXECUTE -> [Execute(d) EXCEPT !.state = STATE_WRITEBACK]
      [] d.state = STATE_WRITEBACK -> [d EXCEPT !.state = STATE_DONE]
      [] d.state = STATE_DONE -> [d EXCEPT !.state = STATE_IDLE]

(* ---- state machine processing: one call ---- *)
ternary_process_state(d) ==
    CASE d.state = STATE_IDLE -> d
      [] d.state = STATE_FETCH -> [d EXCEPT !.state = STATE_EXECUTE]
      [] d.state = STATE_EXECUTE -> [Execute(d) EXCEPT !.state = STATE_WRITEBACK]
      [] d.state = STATE_WRITEBACK -> [d EXCEPT !.output = d.temp_result,
                                                !.state = STATE_DONE]
      [] d.state = STATE_DONE -> [d EXCEPT !.state = STATE_IDLE]

(* the timer callback *)
ternary_timer(d) == ternary_process_state(d)

(* ---- the companion driver (src/src/ternary_coprocessor.c) ---- *)
(* its register offsets and opcodes; the names are the driver's, prefixed *)
DRV_TERNARY_REG_INPUT == 0
DRV_TERNARY_REG_OUTPUT == 4
DRV_TERNARY_REG_COMMAND == 8
DRV_TERNARY_REG_STATUS == 12
DRV_CMD_TERNARY_ADD == 1
DRV_CMD_TERNARY_NOT == 2
DRV_CMD_TERNARY_AND == 3
DRV_CMD_TERNARY_PUSH == 4
DRV_CMD_TERNARY_POP == 5

(* write(): iowrite32 of the word to the driver's INPUT offset *)
dev_write(d, input) ==
    ternary_mmio_write(d, DRV_TERNARY_REG_INPUT, input, SIZEOF_UINT32)

(* ioctl(TERNARY_IOC_SET_CMD): the device after the call *)
dev_ioctl_SET_CMD(d, value) ==
    IF value > DRV_CMD_TERNARY_POP THEN d
    ELSE ternary_mmio_write(d, DRV_TERNARY_REG_COMMAND, value, SIZEOF_UINT32)

(* ioctl(TERNARY_IOC_GET_STATUS): the value handed to the caller, and the
   device after the call *)
dev_ioctl_GET_STATUS_value(d) ==
    ternary_mmio_read_value(d, DRV_TERNARY_REG_STATUS, SIZEOF_UINT32)

dev_ioctl_GET_STATUS(d) ==
    ternary_mmio_read(d, DRV_TERNARY_REG_STATUS, SIZEOF_UINT32)

(* read(): ioread32 of OUTPUT, then of STATUS; the word read from OUTPUT, and
   the device after the two reads *)
dev_read_result(d) ==
    ternary_mmio_read_value(d, DRV_TERNARY_REG_OUTPUT, SIZEOF_UINT32)

dev_read(d) ==
    ternary_mmio_read(ternary_mmio_read(d, DRV_TERNARY_REG_OUTPUT, SIZEOF_UINT32),
                      DRV_TERNARY_REG_STATUS, SIZEOF_UINT32)

(* ---- the host: the accesses the model enumerates ---- *)
AllPosVector == [i \in Lanes |-> 1]
(* word k of the all-(+1) vector as the host packs it: every bit pair 01 *)
AllPosWord(k) == EncodeWord(AllPosVector, k)
(* an opcode the switch of EXECUTE has no case for *)
INVALID_COMMAND == CMD_TERNARY_SHA3 + 1
CommandValues == {CMD_TERNARY_NOP, CMD_TERNARY_PUSH, CMD_TERNARY_POP, CMD_TERNARY_ADD,
                  CMD_TERNARY_NOT, CMD_TERNARY_AND, INVALID_COMMAND}
InputWordAddr(k) == TERNARY_REG_INPUT_BASE + 4 * k
OutputWordAddr(k) == TERNARY_REG_OUTPUT_BASE + 4 * k
(* offset 0xFF, outside every register range *)
UNMAPPED == 15 * 16 + 15
(* a 16-bit access *)
BAD_SIZE == SIZEOF_UINT32 \div 2
(* <<addr, value, size>> of the writes and <<addr, size>> of the reads.  The
   host of Spec feeds operands through INPUT word 0 alone (a word of +1 trits
   or a word of 0 trits; WORDS_PER_OPERAND such writes complete an operand);
   the host of WideSpec writes every word of the all-(+1) vector instead. *)
ControlWrites ==
    ({TERNARY_REG_COMMAND} \X CommandValues \X {SIZEOF_UINT32})
    \cup {<<TERNARY_REG_OPERAND_COUNT, 1, SIZEOF_UINT32>>,
          <<UNMAPPED, 1, SIZEOF_UINT32>>,
          <<TERNARY_REG_STATUS, 0, SIZEOF_UINT32>>,
          <<TERNARY_REG_COMMAND, CMD_TERNARY_PUSH, BAD_SIZE>>,
          <<UNMAPPED, 1, BAD_SIZE>>}
HostWrites ==
    {<<InputWordAddr(0), AllPosWord(0), SIZEOF_UINT32>>,
     <<InputWordAddr(0), 0, SIZEOF_UINT32>>}
    \cup ControlWrites
WideWrites ==
    {<<InputWordAddr(k), AllPosWord(k), SIZEOF_UINT32>> : k \in 0 .. (WORDS_PER_OPERAND - 1)}
    \cup ControlWrites
(* the host of DataSpec runs the stack machine with valid accesses only: it
   writes the words of the all-(+1) vector, the stack commands and an operand
   count other than WORDS_PER_OPERAND, and reads the OUTPUT words, STATUS and
   OPERAND_COUNT *)
DataCommands == {CMD_TERNARY_PUSH, CMD_TERNARY_POP, CMD_TERNARY_ADD,
                 CMD_TERNARY_NOT, CMD_TERNARY_AND}
DataWrites ==
    {<<InputWordAddr(k), AllPosWord(k), SIZEOF_UINT32>> : k \in 0 .. (WORDS_PER_OPERAND - 1)}
    \cup ({TERNARY_REG_COMMAND} \X DataCommands \X {SIZEOF_UINT32})
    \cup {<<TERNARY_REG_OPERAND_COUNT, WORDS_PER_OPERAND + 1, SIZEOF_UINT32>>}
DataReads ==
    {<<OutputWordAddr(k), SIZEOF_UINT32>> : k \in 0 .. (WORDS_PER_OPERAND - 1)}
    \cup {<<TERNARY_REG_STATUS, SIZEOF_UINT32>>, <<TERNARY_REG_OPERAND_COUNT, SIZEOF_UINT32>>}
HostReads ==
    {<<OutputWordAddr(0), SIZEOF_UINT32>>,
     <<OutputWordAddr(WORDS_PER_OPERAND - 1), SIZEOF_UINT32>>,
     <<TERNARY_REG_STATUS, SIZEOF_UINT32>>,
     <<TERNARY_REG_OPERAND_COUNT, SIZEOF_UINT32>>,
     <<TERNARY_REG_INPUT_BASE, SIZEOF_UINT32>>,
     <<UNMAPPED, SIZEOF_UINT32>>,
     <<TERNARY_REG_STATUS, BAD_SIZE>>}

(* an operation of the host or the timer, as the observers below see it *)
WriteOp(addr, value, size) == <<"write", addr, value, size>>
ReadOp(addr, size) == <<"read", addr, 0, size>>
TickOp == <<"tick", 0, 0, 0>>

(* ---- observers: they record the run, the device never reads them ---- *)
MaxTicks == 5

(* the full-cycle PUSH scenario: every INPUT word of the all-(+1) vector,
   COMMAND=PUSH, then MaxTicks ticks *)
PushScript ==
    [k \in 1 .. (WORDS_PER_OPERAND + 1 + MaxTicks) |->
        IF k <= WORDS_PER_OPERAND
        THEN WriteOp(InputWordAddr(k - 1), AllPosWord(k - 1), SIZEOF_UINT32)
        ELSE IF k = WORDS_PER_OPERAND + 1
             THEN WriteOp(TERNARY_REG_COMMAND, CMD_TERNARY_PUSH, SIZEOF_UINT32)
        ELSE TickOp]

(* the underflow scenario: COMMAND=ADD on the fresh device, then MaxTicks ticks *)
AddScript ==
    [k \in 1 .. (1 + MaxTicks) |->
        IF k = 1 THEN WriteOp(TERNARY_REG_COMMAND, CMD_TERNARY_ADD, SIZEOF_UINT32)
        ELSE TickOp]

(* accesses issued while a command is in flight: a second COMMAND write in
   FETCH; in EXECUTE a 2-byte write, a write and a read of an unmapped offset
   and a read of STATUS; then the ticks that finish the cycle *)
BusyScript ==
    << WriteOp(TERNARY_REG_COMMAND, CMD_TERNARY_PUSH, SIZEOF_UINT32),
       WriteOp(TERNARY_REG_COMMAND, CMD_TERNARY_POP, SIZEOF_UINT32),
       TickOp,
       WriteOp(UNMAPPED, 1, BAD_SIZE),
       WriteOp(UNMAPPED, 1, SIZEOF_UINT32),
       ReadOp(UNMAPPED, SIZEOF_UINT32),
       ReadOp(TERNARY_REG_STATUS, SIZEOF_UINT32),
       TickOp, TickOp, TickOp >>

(* polling: COMMAND=PUSH, then reads of STATUS, OUTPUT and OPERAND_COUNT
   while the command is in flight *)
PollScript ==
    << WriteOp(TERNARY_REG_COMMAND, CMD_TERNARY_PUSH, SIZEOF_UINT32),
       ReadOp(TERNARY_REG_STATUS, SIZEOF_UINT32),
       TickOp,
       ReadOp(OutputWordAddr(0), SIZEOF_UINT32),
       TickOp,
       ReadOp(TERNARY_REG_OPERAND_COUNT, SIZEOF_UINT32) >>

Scripts == [push |-> PushScript, add |-> AddScript, busy |-> BusyScript, poll |-> PollScript]
ScriptNames == {"push", "add", "busy", "poll"}

VARIABLES
    pThis,   \* the register file (DEVTERNARY)
    ticks,   \* observer: timer calls since the last write that armed the FSM
             \*   (-1 before the first one, counted up to MaxTicks)
    npush,   \* observer: PUSH commands accepted in a row since the stack was
             \*   empty, with nothing but ticks between them (0: none)
    scen     \* observer: for each script, how many of its operations the run
             \*   since construction consists of (-1: the run left the script)

vars == <<pThis, ticks, npush, scen>>

Arms(d, d2) == d.state = STATE_IDLE /\ d2.state = STATE_FETCH

Observe(op, d2) ==
    /\ ticks' = IF op = TickOp
                THEN (IF ticks < 0 \/ ticks >= MaxTicks THEN ticks ELSE ticks + 1)
                ELSE IF Arms(pThis, d2) THEN 0 ELSE ticks
    /\ npush' = IF op = TickOp THEN npush
                ELSE IF op = WriteOp(TERNARY_REG_COMMAND, CMD_TERNARY_PUSH, SIZEOF_UINT32)
                        /\ pThis.state = STATE_IDLE
                THEN (IF npush >= 1 /\ npush <= STACK_DEPTH THEN npush + 1
                      ELSE IF pThis.stack_ptr = 0 THEN 1 ELSE 0)
                ELSE 0
    /\ scen' = [n \in ScriptNames |->
                  IF scen[n] >= 0 /\ scen[n] < Len(Scripts[n]) /\ Scripts[n][scen[n] + 1] = op
                  THEN scen[n] + 1 ELSE -1]

Init ==
    /\ pThis = devTernaryConstruct
    /\ ticks = -1
    /\ npush = 0
    /\ scen = [n \in ScriptNames |-> 0]

Write ==
    \E w \in HostWrites :
        LET d2 == ternary_mmio_write(pThis, w[1], w[2], w[3]) IN
        /\ pThis' = d2
        /\ Observe(WriteOp(w[1], w[2], w[3]), d2)

WideWrite ==
    \E w \in WideWrites :
        LET d2 == ternary_mmio_write(pThis, w[1], w[2], w[3]) IN
        /\ pThis' = d2
        /\ Observe(WriteOp(w[1], w[2], w[3]), d2)

Read ==
    \E r \in HostReads :
        LET d2 == ternary_mmio_read(pThis, r[1], r[2]) IN
        /\ pThis' = d2
        /\ Observe(ReadOp(r[1], r[2]), d2)

Tick ==
    LET d2 == ternary_timer(pThis) IN
    /\ pThis' = d2
    /\ Observe(TickOp, d2)

Next == Write \/ Read \/ Tick

Spec == Init /\ [][Next]_vars

(* the timer keeps firing: ternary_timer is a periodic callback *)
FairSpec == Spec /\ WF_vars(Tick)

DataWrite ==
    \E w \in DataWrites :
        LET d2 == ternary_mmio_write(pThis, w[1], w[2], w[3]) IN
        /\ pThis' = d2
        /\ Observe(WriteOp(w[1], w[2], w[3]), d2)

DataRead ==
    \E r \in DataReads :
        LET d2 == ternary_mmio_read(pThis, r[1], r[2]) IN
        /\ pThis' = d2
        /\ Observe(ReadOp(r[1], r[2]), d2)

DataNext == DataWrite \/ DataRead \/ Tick

DataSpec == Init /\ [][DataNext]_vars

(* the host of DriverSpec is a process that uses the driver: write() of a
   packed word, ioctl(SET_CMD) of any opcode up to one past the driver's
   last, ioctl(GET_STATUS) and read() *)
DriverWords == 0 .. (4 ^ TRITS_PER_WORD - 1)
DriverOpcodes == 0 .. (DRV_CMD_TERNARY_POP + 1)

DrvWrite ==
    \E input \in DriverWords :
        LET d2 == dev_write(pThis, input) IN
        /\ pThis' = d2
        /\ Observe(WriteOp(DRV_TERNARY_REG_INPUT, input, SIZEOF_UINT32), d2)

DrvSetCmd ==
    \E value \in DriverOpcodes :
        LET d2 == dev_ioctl_SET_CMD(pThis, value) IN
        /\ pThis' = d2
        /\ Observe(WriteOp(DRV_TERNARY_REG_COMMAND, value, SIZEOF_UINT32), d2)

DrvGetStatus ==
    LET d2 == dev_ioctl_GET_STATUS(pThis) IN
    /\ pThis' = d2
    /\ Observe(ReadOp(DRV_TERNARY_REG_STATUS, SIZEOF_UINT32), d2)

DrvRead ==
    LET d2 == dev_read(pThis) IN
    /\ pThis' = d2
    /\ Observe(ReadOp(DRV_TERNARY_REG_OUTPUT, SIZEOF_UINT32), d2)

DriverNext == DrvWrite \/ DrvSetCmd \/ DrvGetStatus \/ DrvRead \/ Tick

DriverSpec == Init /\ [][DriverNext]_vars

WideNext == WideWrite \/ Read \/ Tick

WideSpec == Init /\ [][WideNext]_vars

(***************************************************************************)
(* The claims.  A claim about what one call does is stated on every        *)
(* reachable register file: the handler is applied to pThis and its result *)
(* compared with pThis.                                                    *)
(***************************************************************************)

(* the accesses a claim about any address, value and width ranges over *)
AnyAddrs == {InputWordAddr(0), InputWordAddr(WORDS_PER_OPERAND - 1), OutputWordAddr(0),
             TERNARY_REG_COMMAND, TERNARY_REG_STATUS, TERNARY_REG_OPERAND_COUNT, UNMAPPED}
AnyValues == {0, CMD_TERNARY_PUSH, AllPosWord(0)}
AnySizes == {1, SIZEOF_UINT32, 8}

(* C1, as stated: while the FSM state is not IDLE, a register write of any
   address, any value and any width leaves every register as it was. *)
C1_AnyWriteIgnoredWhenBusy ==
    pThis.state # STATE_IDLE =>
        \A a \in AnyAddrs, v \in AnyValues, size \in AnySizes :
            ternary_mmio_write(pThis, a, v, size) = pThis

(* C1, amended: while the FSM state is not IDLE, a 4-byte register write of any
   address and value leaves every register as it was, and a write of any other
   width changes nothing but status, where it sets InvalidSize. *)
C1_WordWriteIgnoredWhenBusy ==
    pThis.state # STATE_IDLE =>
        \A a \in AnyAddrs, v \in AnyValues :
            /\ ternary_mmio_write(pThis, a, v, SIZEOF_UINT32) = pThis
            /\ \A size \in AnySizes \ {SIZEOF_UINT32} :
                 ternary_mmio_write(pThis, a, v, size) =
                     [pThis EXCEPT !.status = BitOr(pThis.status, STATUS_ERROR_INVALID_SIZE)]

(* a COMMAND=POP write was issued in FETCH and the armed PUSH is still there *)
C1_Witness ==
    /\ scen.busy = 2
    /\ pThis.state = STATE_FETCH
    /\ pThis.command = CMD_TERNARY_PUSH

(* C2, as stated: from the fresh device, writing every INPUT word of the
   all-(+1) vector, then COMMAND=PUSH, then ticking 5 times ends in IDLE with
   stack_ptr = 1, output the all-(+1) vector and status 0. *)
C2_FullCyclePush ==
    scen.push = Len(PushScript) =>
        /\ pThis.state = STATE_IDLE
        /\ pThis.stack_ptr = 1
        /\ pThis.output = AllPosVector
        /\ pThis.status = 0

(* C3, as stated: after a write that arms the FSM, the device is back in IDLE
   after the fifth tick and not before. *)
C3_BackInIdleAtFifthTick ==
    ticks >= 0 => (pThis.state = STATE_IDLE <=> ticks >= 5)

(* C3, amended: every tick advances the FSM by exactly one state and an
   operation spans four ticks: after a write that arms the FSM (it leaves the
   device in FETCH), the device is in EXECUTE, WRITEBACK and DONE after the
   first, second and third tick and back in IDLE, for the first time, after
   the fourth; a fifth tick finds it in IDLE. *)
C3_BackInIdleAtFourthTick ==
    ticks >= 0 =>
        pThis.state = (CASE ticks = 0 -> STATE_FETCH
                         [] ticks = 1 -> STATE_EXECUTE
                         [] ticks = 2 -> STATE_WRITEBACK
                         [] ticks = 3 -> STATE_DONE
                         [] OTHER -> STATE_IDLE)

(* four ticks after a COMMAND write the device is in IDLE with the result out *)
C3_Witness ==
    /\ ticks = 4
    /\ pThis.state = STATE_IDLE
    /\ pThis.command = CMD_TERNARY_PUSH
    /\ pThis.stack_ptr = 1

(* the successor of a state in IDLE -> FETCH -> EXECUTE -> WRITEBACK -> DONE -> IDLE *)
FsmSuccessor(st) ==
    CASE st = STATE_IDLE -> STATE_FETCH
      [] st = STATE_FETCH -> STATE_EXECUTE
      [] st = STATE_EXECUTE -> STATE_WRITEBACK
      [] st = STATE_WRITEBACK -> STATE_DONE
      [] st = STATE_DONE -> STATE_IDLE

(* C4: the FSM is strictly cyclic with no skipping.  A register write leaves
   the state as it is or takes it from IDLE to FETCH; a register read leaves it
   as it is; a tick in IDLE changes nothing and a tick in any other state takes
   it to its successor. *)
C4_StrictlyCyclic ==
    /\ \A a \in AnyAddrs, v \in AnyValues, size \in AnySizes :
         LET post == ternary_mmio_write(pThis, a, v, size) IN
         \/ post.state = pThis.state
         \/ pThis.state = STATE_IDLE /\ post.state = STATE_FETCH
    /\ \A a \in AnyAddrs, size \in AnySizes :
         ternary_mmio_read(pThis, a, size).state = pThis.state
    /\ IF pThis.state = STATE_IDLE
       THEN ternary_timer(pThis) = pThis
       ELSE ternary_timer(pThis).state = FsmSuccessor(pThis.state)

(* COMMAND=ADD armed the fresh device and three ticks took it to DONE *)
C4_Witness ==
    /\ scen.add = 4
    /\ pThis.state = STATE_DONE

StatusFlags == {STATUS_ERROR_INVALID_SIZE, STATUS_ERROR_INVALID_ADDR,
                STATUS_ERROR_STACK_OVERFLOW, STATUS_ERROR_STACK_UNDERFLOW,
                STATUS_ERROR_INVALID_COMMAND}

(* every bit set in s1 is set in s2 *)
StatusKeeps(s1, s2) == \A f \in StatusFlags : HasFlag(s1, f) => HasFlag(s2, f)

(* C5: status is 0 right after an accepted COMMAND write (4 bytes, in IDLE),
   and every other operation -- any other write, any read, any tick -- leaves
   every status bit that was set still set. *)
C5_StatusGrowsUntilNextCommand ==
    /\ \A a \in AnyAddrs, v \in AnyValues, size \in AnySizes :
         LET post == ternary_mmio_write(pThis, a, v, size) IN
         IF a = TERNARY_REG_COMMAND /\ size = SIZEOF_UINT32 /\ pThis.state = STATE_IDLE
         THEN post.status = 0
         ELSE StatusKeeps(pThis.status, post.status)
    /\ \A a \in AnyAddrs, size \in AnySizes :
         StatusKeeps(pThis.status, ternary_mmio_read(pThis, a, size).status)
    /\ StatusKeeps(pThis.status, ternary_timer(pThis).status)

(* InvalidSize and InvalidAddr, raised while the PUSH was in EXECUTE, are both
   still set when its cycle is over *)
C5_Witness ==
    /\ scen.busy = Len(BusyScript)
    /\ pThis.state = STATE_IDLE
    /\ pThis.status = STATUS_ERROR_INVALID_SIZE + STATUS_ERROR_INVALID_ADDR

(* C6: stack bound.  npush counts the PUSH commands accepted in a row from an
   empty stack, each ticked until the device is IDLE again.  Each of the first
   STACK_DEPTH leaves status 0 and stack_ptr equal to the number of pushes; the
   last one raises StackOverflow (and nothing else) in EXECUTE and leaves
   stack_ptr = STACK_DEPTH and the STACK_DEPTH stored slots, each holding the
   pushed input, as they were. *)
C6_StackBound ==
    /\ (npush >= 1 /\ npush <= STACK_DEPTH) =>
         /\ pThis.status = 0
         /\ pThis.state = STATE_IDLE =>
              /\ pThis.stack_ptr = npush
              /\ \A j \in 0 .. (npush - 1) : pThis.stack[j] = pThis.input
    /\ npush = STACK_DEPTH + 1 =>
         /\ pThis.stack_ptr = STACK_DEPTH
         /\ \A j \in Slots : pThis.stack[j] = pThis.input
         /\ pThis.state \in {STATE_FETCH, STATE_EXECUTE} => pThis.status = 0
         /\ pThis.state \in {STATE_WRITEBACK, STATE_DONE, STATE_IDLE} =>
              pThis.status = STATUS_ERROR_STACK_OVERFLOW

(* the push into the full stack is over and the slots hold the pushed vector *)
C6_Witness ==
    /\ npush = STACK_DEPTH + 1
    /\ pThis.state = STATE_IDLE
    /\ pThis.input # ZeroVector
    /\ HasFlag(pThis.status, STATUS_ERROR_STACK_OVERFLOW)

(* the commands that find too few operands on the stack *)
UnderflowCase(d) ==
    \/ d.command \in {CMD_TERNARY_POP, CMD_TERNARY_NOT} /\ d.stack_ptr = 0
    \/ d.command \in {CMD_TERNARY_ADD, CMD_TERNARY_AND} /\ d.stack_ptr < 2

(* C7: underflow.  When EXECUTE dispatches POP or NOT with stack_ptr = 0, or
   ADD or AND with stack_ptr < 2, the tick sets StackUnderflow and leaves
   stack_ptr and every stack slot as they were, and the WRITEBACK tick that
   follows -- whatever the host reads or writes in between -- leaves output as
   it was; no operation outside WRITEBACK changes output, so output after the
   cycle is output before the command was written.  On the fresh device,
   COMMAND=ADD and the ticks of the cycle end with StackUnderflow set and
   output all zero. *)
C7_Underflow ==
    /\ (pThis.state = STATE_EXECUTE /\ UnderflowCase(pThis)) =>
         LET e == ternary_timer(pThis) IN
         /\ HasFlag(e.status, STATUS_ERROR_STACK_UNDERFLOW)
         /\ e.stack_ptr = pThis.stack_ptr
         /\ e.stack = pThis.stack
         /\ e.state = STATE_WRITEBACK
         /\ ternary_timer(e).output = pThis.output
         /\ \A a \in AnyAddrs, v \in AnyValues, size \in AnySizes :
              /\ ternary_timer(ternary_mmio_write(e, a, v, size)).output = pThis.output
              /\ ternary_timer(ternary_mmio_read(e, a, size)).output = pThis.output
    /\ pThis.state # STATE_WRITEBACK =>
         /\ ternary_timer(pThis).output = pThis.output
         /\ \A a \in AnyAddrs, v \in AnyValues, size \in AnySizes :
              /\ ternary_mmio_write(pThis, a, v, size).output = pThis.output
              /\ ternary_mmio_read(pThis, a, size).output = pThis.output
    /\ scen.add = Len(AddScript) =>
         /\ pThis.state = STATE_IDLE
         /\ HasFlag(pThis.status, STATUS_ERROR_STACK_UNDERFLOW)
         /\ pThis.stack_ptr = 0
         /\ pThis.output = ZeroVector

(* a POP of the empty stack is over: StackUnderflow is set and output still
   holds the vector an earlier command left there *)
C7_Witness ==
    /\ pThis.state = STATE_IDLE
    /\ ticks = 4
    /\ pThis.command = CMD_TERNARY_POP
    /\ pThis.stack_ptr = 0
    /\ HasFlag(pThis.status, STATUS_ERROR_STACK_UNDERFLOW)
    /\ pThis.output # ZeroVector

(* offsets outside the INPUT words, the OUTPUT words and the three scalar
   registers: the word after the INPUT range, the word after the OUTPUT range,
   the word after OPERAND_COUNT, and 0xFF *)
UnmappedAddrs == {InputWordAddr(WORDS_PER_OPERAND), OutputWordAddr(WORDS_PER_OPERAND),
                  TERNARY_REG_OPERAND_COUNT + 4, UNMAPPED}

(* post is d with the flag set in status and no other register changed *)
RejectedWith(d, post, flag) ==
    /\ HasFlag(post.status, flag)
    /\ [post EXCEPT !.status = d.status] = d

(* C8, as stated: in every FSM state, every read or write whose width is not
   4 sets InvalidSize and every 4-byte read or write of an unmapped address
   sets InvalidAddr; no register other than status changes and a read
   returns 0. *)
C8_InvalidAccessFlaggedInEveryState ==
    /\ \A a \in AnyAddrs \cup UnmappedAddrs, size \in AnySizes \ {SIZEOF_UINT32} :
         /\ \A v \in AnyValues :
              RejectedWith(pThis, ternary_mmio_write(pThis, a, v, size),
                           STATUS_ERROR_INVALID_SIZE)
         /\ RejectedWith(pThis, ternary_mmio_read(pThis, a, size), STATUS_ERROR_INVALID_SIZE)
         /\ ternary_mmio_read_value(pThis, a, size) = 0
    /\ \A a \in UnmappedAddrs :
         /\ \A v \in AnyValues :
              RejectedWith(pThis, ternary_mmio_write(pThis, a, v, SIZEOF_UINT32),
                           STATUS_ERROR_INVALID_ADDR)
         /\ RejectedWith(pThis, ternary_mmio_read(pThis, a, SIZEOF_UINT32),
                         STATUS_ERROR_INVALID_ADDR)
         /\ ternary_mmio_read_value(pThis, a, SIZEOF_UINT32) = 0

(* C8, amended: in every FSM state, every read or write whose width is not 4
   sets InvalidSize and every 4-byte read of an unmapped address sets
   InvalidAddr, no register other than status changes and the read returns 0.
   A 4-byte write of an unmapped address sets InvalidAddr, and changes nothing
   else, in IDLE only: while the FSM is not IDLE it changes no register, status
   included. *)
C8_InvalidAccessFlagged ==
    /\ \A a \in AnyAddrs \cup UnmappedAddrs, size \in AnySizes \ {SIZEOF_UINT32} :
         /\ \A v \in AnyValues :
              RejectedWith(pThis, ternary_mmio_write(pThis, a, v, size),
                           STATUS_ERROR_INVALID_SIZE)
         /\ RejectedWith(pThis, ternary_mmio_read(pThis, a, size), STATUS_ERROR_INVALID_SIZE)
         /\ ternary_mmio_read_value(pThis, a, size) = 0
    /\ \A a \in UnmappedAddrs :
         /\ \A v \in AnyValues :
              IF pThis.state = STATE_IDLE
              THEN RejectedWith(pThis, ternary_mmio_write(pThis, a, v, SIZEOF_UINT32),
                                STATUS_ERROR_INVALID_ADDR)
              ELSE ternary_mmio_write(pThis, a, v, SIZEOF_UINT32) = pThis
         /\ RejectedWith(pThis, ternary_mmio_read(pThis, a, SIZEOF_UINT32),
                         STATUS_ERROR_INVALID_ADDR)
         /\ ternary_mmio_read_value(pThis, a, SIZEOF_UINT32) = 0

(* with PUSH in EXECUTE, a 2-byte write of 0xFF has set InvalidSize, a 4-byte
   write of 0xFF has set nothing and a 4-byte read of 0xFF has set InvalidAddr *)
C8_Witness ==
    /\ scen.busy = 6
    /\ pThis.state = STATE_EXECUTE
    /\ pThis.status = STATUS_ERROR_INVALID_SIZE + STATUS_ERROR_INVALID_ADDR

(* the addresses a 4-byte read returns a register for *)
ReadableAddrs == {OutputWordAddr(k) : k \in 0 .. (WORDS_PER_OPERAND - 1)}
                 \cup {TERNARY_REG_STATUS, TERNARY_REG_OPERAND_COUNT}

(* C9: a register read of any address and any width, in any FSM state, leaves
   state, input, output, stack, stack_ptr, command, operand_words,
   operand_count and temp_result as they were; a 4-byte read of an OUTPUT
   word, STATUS or OPERAND_COUNT leaves status as it was too. *)
C9_ReadsLeaveThePipelineAlone ==
    /\ \A a \in AnyAddrs \cup UnmappedAddrs, size \in AnySizes :
         [ternary_mmio_read(pThis, a, size) EXCEPT !.status = pThis.status] = pThis
    /\ \A a \in ReadableAddrs :
         ternary_mmio_read(pThis, a, SIZEOF_UINT32) = pThis

(* PUSH is in WRITEBACK after the host read STATUS, OUTPUT word 0 and
   OPERAND_COUNT during the cycle, and no status bit is set *)
C9_Witness ==
    /\ scen.poll = Len(PollScript)
    /\ pThis.state = STATE_WRITEBACK
    /\ pThis.command = CMD_TERNARY_PUSH
    /\ pThis.status = 0

(* C10: run to completion.  With the timer firing, a device that is not IDLE
   reaches IDLE again.  While it is not IDLE, no step -- a host write, a host
   read or a tick -- changes the stored command, takes the state anywhere but
   to itself or its successor in the cycle, or restarts the count of ticks
   since the arming write; and the cycle is on a fixed schedule, FETCH at the
   arming write, EXECUTE, WRITEBACK and DONE after its first, second and third
   tick and IDLE from the fourth on, so that it is in WRITEBACK once, between
   the second tick and the third. *)
C10_RunToCompletion ==
    /\ (pThis.state # STATE_IDLE) ~> (pThis.state = STATE_IDLE)
    /\ [][pThis.state # STATE_IDLE =>
            /\ pThis'.command = pThis.command
            /\ pThis'.state \in {pThis.state, FsmSuccessor(pThis.state)}
            /\ ticks' \in {ticks, ticks + 1}]_vars
    /\ [](/\ pThis.state = STATE_FETCH <=> ticks = 0
          /\ pThis.state = STATE_EXECUTE <=> ticks = 1
          /\ pThis.state = STATE_WRITEBACK <=> ticks = 2
          /\ pThis.state = STATE_DONE <=> ticks = 3)

(* PUSH armed the FSM; a COMMAND=POP write, invalid writes and reads came
   during the cycle; four ticks after the arming write the device is IDLE
   again with the PUSH done: one vector on the stack, command still PUSH *)
C10_Witness ==
    /\ scen.busy = Len(BusyScript)
    /\ ticks = 4
    /\ pThis.state = STATE_IDLE
    /\ pThis.command = CMD_TERNARY_PUSH
    /\ pThis.stack_ptr = 1

(* the register file after a 4-byte write of cmd to COMMAND and the four
   ticks of its cycle, with no other access in between *)
RunCommand(d, cmd) ==
    ternary_timer(ternary_timer(ternary_timer(ternary_timer(
        ternary_mmio_write(d, TERNARY_REG_COMMAND, cmd, SIZEOF_UINT32)))))

AllNegVector == [i \in Lanes |-> -1]

(* C11: NOT.  When COMMAND=NOT is written to an IDLE device with
   stack_ptr >= 1 and the cycle is ticked to completion, the device is IDLE
   again, the top slot and output both hold the lane-wise negation of the
   former top slot, stack_ptr and every other slot are as they were and
   status is 0; with the all-(+1) vector on top of a stack of depth 1, output
   is the all-(-1) vector and the depth is still 1. *)
C11_Not ==
    (pThis.state = STATE_IDLE /\ pThis.stack_ptr >= 1) =>
        LET e == RunCommand(pThis, CMD_TERNARY_NOT)
            top == pThis.stack_ptr - 1
            neg == [i \in Lanes |-> 0 - pThis.stack[top][i]]
        IN  /\ e.state = STATE_IDLE
            /\ e.stack[top] = neg
            /\ e.output = neg
            /\ e.stack_ptr = pThis.stack_ptr
            /\ \A s \in Slots : s # top => e.stack[s] = pThis.stack[s]
            /\ e.status = 0
            /\ (pThis.stack_ptr = 1 /\ pThis.stack[top] = AllPosVector) =>
                 (e.output = AllNegVector /\ e.stack_ptr = 1)

(* a NOT cycle is over on a stack of depth 1: the top slot and output are the
   all-(-1) vector, the negation of a pushed all-(+1) vector *)
C11_Witness ==
    /\ pThis.state = STATE_IDLE
    /\ ticks = 4
    /\ pThis.command = CMD_TERNARY_NOT
    /\ pThis.stack_ptr = 1
    /\ pThis.stack[0] = AllNegVector
    /\ pThis.output = AllNegVector
    /\ pThis.status = 0

(* C13: stack pointer invariant.  In every reachable state
   0 <= stack_ptr <= STACK_DEPTH, whatever commands ran, and the EXECUTE tick
   of a command reads and writes stack slots of index 0..STACK_DEPTH-1 only. *)
C13_StackPointerInRange ==
    /\ pThis.stack_ptr \in 0 .. STACK_DEPTH
    /\ DOMAIN pThis.stack = Slots
    /\ pThis.state = STATE_EXECUTE => StackAccesses(pThis) \subseteq Slots
    /\ ternary_timer(pThis).stack_ptr \in 0 .. STACK_DEPTH

(* a PUSH is about to execute on the full stack *)
C13_Witness ==
    /\ pThis.state = STATE_EXECUTE
    /\ pThis.command = CMD_TERNARY_PUSH
    /\ pThis.stack_ptr = STACK_DEPTH
    /\ ticks = 1

Trits == {-1, 0, 1}

(* every element of the trit arrays of d is a trit *)
TritRange(d) ==
    /\ \A i \in Lanes : d.input[i] \in Trits /\ d.output[i] \in Trits /\ d.temp_result[i] \in Trits
    /\ \A s \in Slots : \A i \in Lanes : d.stack[s][i] \in Trits

(* the values of a packed word of TRITS_PER_WORD bit pairs: every pattern of
   the pairs, 11 included *)
AnyWords == 0 .. (4 ^ TRITS_PER_WORD - 1)

(* the word whose n bit pairs are all p *)
RECURSIVE RepeatPair(_, _)
RepeatPair(p, n) == IF n = 0 THEN 0 ELSE p + 4 * RepeatPair(p, n - 1)

(* the words of all-00, all-01, all-10 and all-11 bit pairs *)
PatternWords == {RepeatPair(p, TRITS_PER_WORD) : p \in 0 .. 3}

(* the decode of every bit pair of every word value is a trit *)
DecodeInRange ==
    \A v \in AnyWords : \A i \in 0 .. (TRITS_PER_WORD - 1) : DecodeBits(v, i) \in Trits

(* C12: trit range invariant.  In every reachable state every element of
   input, output, temp_result and of every stack slot is in {-1, 0, +1}; the
   next tick leaves it so, and so does a write to any INPUT word, whose decode
   yields a trit for every bit pair of every word value (the words of all-00,
   all-01, all-10 and all-11 pairs are written in every reachable state). *)
C12_TritRange ==
    /\ TritRange(pThis)
    /\ TritRange(ternary_timer(pThis))
    /\ DecodeInRange
    /\ \A k \in 0 .. (WORDS_PER_OPERAND - 1), v \in PatternWords :
         TritRange(ternary_mmio_write(pThis, InputWordAddr(k), v, SIZEOF_UINT32))

(* an ADD of two +1 lanes left -1, the digit of the sum 2, on the stack and in
   output: the carry was not stored as a digit *)
C12_Witness ==
    /\ pThis.state = STATE_IDLE
    /\ pThis.command = CMD_TERNARY_ADD
    /\ pThis.status = 0
    /\ pThis.stack_ptr = 1
    /\ \E i \in Lanes : pThis.output[i] = -1 /\ pThis.stack[0][i] = -1

TritVectors == [Lanes -> Trits]

(* the lanes input or output word k carries *)
WordLanes(k) == {i \in Lanes : i >= k * TRITS_PER_WORD /\ i - k * TRITS_PER_WORD < MaxTrits(k)}

WordIndexes == 0 .. (WORDS_PER_OPERAND - 1)

(* decode(encode(v)) = v: for every trit vector v and every word k, decoding
   into any vector the word that encodes word k of v stores the lanes of v
   the word carries and leaves the other lanes alone *)
CodecRoundTrip ==
    \A v \in TritVectors, base \in {ZeroVector, AllPosVector, AllNegVector} :
        \A k \in WordIndexes :
            LET dec == DecodeWord(base, k, EncodeWord(v, k)) IN
            /\ \A i \in WordLanes(k) : dec[i] = v[i]
            /\ \A i \in Lanes \ WordLanes(k) : dec[i] = base[i]

(* the encoding of a lane is 00 for 0, 01 for +1 and 10 for -1 *)
CodecCodes ==
    \A v \in TritVectors, k \in WordIndexes :
        \A i \in WordLanes(k) :
            (EncodeWord(v, k) \div (4 ^ (i - k * TRITS_PER_WORD))) % 4
                = (CASE v[i] = 0 -> 0 [] v[i] = 1 -> 1 [] v[i] = -1 -> 2)

(* the bit pair 11 decodes to 0, and the bit pairs above the trits a word
   carries do not matter *)
CodecLenient ==
    \A k \in WordIndexes, w \in AnyWords :
        /\ \A i \in WordLanes(k) :
              (w \div (4 ^ (i - k * TRITS_PER_WORD))) % 4 = 3 =>
                  DecodeWord(AllPosVector, k, w)[i] = 0
        /\ DecodeWord(AllPosVector, k, w) = DecodeWord(AllPosVector, k, w % (4 ^ MaxTrits(k)))

(* C14: codec round trip.  Decoding the word that encodes a trit vector
   (0 -> 00, +1 -> 01, -1 -> 10) returns the vector, the bit pair 11 decodes to
   0 and the bits above the trits a word carries are ignored (the last word
   carries MaxTrits(WORDS_PER_OPERAND - 1) trits); on the device, writing to
   INPUT word k the value just read from OUTPUT word k makes the lanes of
   input that word carries equal to those of output and leaves the others. *)
C14_CodecRoundTrip ==
    /\ CodecRoundTrip
    /\ CodecCodes
    /\ CodecLenient
    /\ MaxTrits(WORDS_PER_OPERAND - 1) = TRIT_COUNT - (WORDS_PER_OPERAND - 1) * TRITS_PER_WORD
    /\ pThis.state = STATE_IDLE =>
         \A k \in WordIndexes :
            LET value == ternary_mmio_read_value(pThis, OutputWordAddr(k), SIZEOF_UINT32)
                w == ternary_mmio_write(pThis, InputWordAddr(k), value, SIZEOF_UINT32)
            IN  /\ \A i \in WordLanes(k) : w.input[i] = pThis.output[i]
                /\ \A i \in Lanes \ WordLanes(k) : w.input[i] = pThis.input[i]

(* the device is IDLE, input holds the all-(+1) vector decoded from its packed
   words and output holds a vector with a -1 lane and a +1 lane to encode *)
C14_Witness ==
    /\ pThis.state = STATE_IDLE
    /\ pThis.input = AllPosVector
    /\ \E i, j \in Lanes : pThis.output[i] = -1 /\ pThis.output[j] = 1

(* the carry law for one pair of digits *)
CarryLaw(a, b) ==
    LET r == ternary_add(a, b) IN
    /\ r.result \in Trits
    /\ r.carry \in Trits
    /\ a + b = r.result + 3 * r.carry

(* C15: carry law.  For all a, b in {-1, 0, +1}, ternary_add(a, b) returns a
   result and a carry in {-1, 0, +1} with a + b = result + 3 * carry; so it is
   for every lane of the two slots an ADD is about to add, whose digit is the
   one the EXECUTE tick stores. *)
C15_CarryLaw ==
    /\ \A a \in Trits, b \in Trits : CarryLaw(a, b)
    /\ (pThis.state = STATE_EXECUTE /\ pThis.command = CMD_TERNARY_ADD /\ pThis.stack_ptr >= 2) =>
         \A i \in Lanes :
            LET a == pThis.stack[pThis.stack_ptr - 1][i]
                b == pThis.stack[pThis.stack_ptr - 2][i]
            IN  /\ CarryLaw(a, b)
                /\ ternary_timer(pThis).temp_result[i] = ternary_add(a, b).result

(* an ADD is about to add two +1 digits, the sum that needs the carry *)
C15_Witness ==
    /\ pThis.state = STATE_EXECUTE
    /\ pThis.command = CMD_TERNARY_ADD
    /\ pThis.stack_ptr = 2
    /\ \E i \in Lanes : pThis.stack[1][i] = 1 /\ pThis.stack[0][i] = 1

(* C16: the operand count is not configurable.  In every reachable state
   operand_count = WORDS_PER_OPERAND and a 4-byte read of OPERAND_COUNT returns
   WORDS_PER_OPERAND; a write of any value to OPERAND_COUNT leaves it so. *)
C16_OperandCountFixed ==
    /\ pThis.operand_count = WORDS_PER_OPERAND
    /\ ternary_mmio_read_value(pThis, TERNARY_REG_OPERAND_COUNT, SIZEOF_UINT32) = WORDS_PER_OPERAND
    /\ \A v \in {0, 1, WORDS_PER_OPERAND - 1, WORDS_PER_OPERAND + 1, AllPosWord(0)} :
         LET w == ternary_mmio_write(pThis, TERNARY_REG_OPERAND_COUNT, v, SIZEOF_UINT32) IN
         /\ w.operand_count = WORDS_PER_OPERAND
         /\ ternary_mmio_read_value(w, TERNARY_REG_OPERAND_COUNT, SIZEOF_UINT32)
                = WORDS_PER_OPERAND

(* the FSM was never armed and an INPUT word was written, yet operand_words
   is 0: a write to OPERAND_COUNT was accepted, and operand_count is still
   WORDS_PER_OPERAND *)
C16_Witness ==
    /\ ticks = -1
    /\ pThis.state = STATE_IDLE
    /\ pThis.input # ZeroVector
    /\ pThis.operand_words = 0
    /\ pThis.operand_count = WORDS_PER_OPERAND

(* C17, as stated: driver/device register agreement.  A SET_CMD ioctl with an
   opcode v the driver names, issued while the device is IDLE, leaves the
   device with command = v, status 0 and the FSM armed (FETCH); the opcode
   numbers the driver names are the device's numbers for the same operations;
   GET_STATUS returns the device's status and read() returns the word of an
   OUTPUT register. *)
C17_DriverAgreesWithDevice ==
    /\ pThis.state = STATE_IDLE =>
         \A v \in DRV_CMD_TERNARY_ADD .. DRV_CMD_TERNARY_POP :
            LET w == dev_ioctl_SET_CMD(pThis, v) IN
            /\ w.command = v
            /\ w.status = 0
            /\ w.state = STATE_FETCH
    /\ DRV_CMD_TERNARY_ADD = CMD_TERNARY_ADD
    /\ DRV_CMD_TERNARY_NOT = CMD_TERNARY_NOT
    /\ DRV_CMD_TERNARY_AND = CMD_TERNARY_AND
    /\ DRV_CMD_TERNARY_PUSH = CMD_TERNARY_PUSH
    /\ DRV_CMD_TERNARY_POP = CMD_TERNARY_POP
    /\ dev_ioctl_GET_STATUS_value(pThis) = pThis.status
    /\ dev_ioctl_GET_STATUS(pThis) = pThis
    /\ \E k \in 0 .. (WORDS_PER_OPERAND - 1) :
         /\ DRV_TERNARY_REG_OUTPUT = OutputWordAddr(k)
         /\ dev_read_result(pThis) = EncodeWord(pThis.output, k)

(* the digit of the balanced-ternary sum of two trits, the carry dropped *)
SumDigit(a, b) == ((a + b + 4) % 3) - 1

Minimum(a, b) == IF a <= b THEN a ELSE b

(* C18: ADD and AND consume two operands and leave one.  When the EXECUTE
   tick runs ADD (AND) with stack_ptr = n >= 2, stack_ptr becomes n-1, slot
   n-2 holds for every lane the sum digit (the minimum) of that lane of the
   former slots n-1 and n-2, whatever the other lanes hold, every other slot
   is as it was, no status bit is set by the tick, and the tick after it
   (WRITEBACK) makes output that result. *)
C18_AddAndCombineTopTwo ==
    (/\ pThis.state = STATE_EXECUTE
     /\ pThis.command \in {CMD_TERNARY_ADD, CMD_TERNARY_AND}
     /\ pThis.stack_ptr >= 2) =>
        LET n == pThis.stack_ptr
            e == ternary_timer(pThis)
            res == [i \in Lanes |->
                      IF pThis.command = CMD_TERNARY_ADD
                      THEN SumDigit(pThis.stack[n - 1][i], pThis.stack[n - 2][i])
                      ELSE Minimum(pThis.stack[n - 1][i], pThis.stack[n - 2][i])]
        IN  /\ e.stack_ptr = n - 1
            /\ e.stack[n - 2] = res
            /\ \A s \in Slots \ {n - 2} : e.stack[s] = pThis.stack[s]
            /\ e.status = pThis.status
            /\ e.state = STATE_WRITEBACK
            /\ ternary_timer(e).output = res
            /\ ternary_timer(e).stack = e.stack

(* an AND of two different vectors is written back: one slot is left, it and
   output hold the result, and the popped slot still holds its operand *)
C18_Witness ==
    /\ pThis.state = STATE_DONE
    /\ pThis.command = CMD_TERNARY_AND
    /\ pThis.stack_ptr = 1
    /\ pThis.status = 0
    /\ pThis.output = pThis.stack[0]
    /\ pThis.stack[1] # pThis.stack[0]

(* PUSH then POP, each run to completion, from an IDLE device with room on
   the stack: output is the input vector pushed, stack_ptr and the occupied
   slots are as before, status is 0 *)
PushPopRoundTrip(d) ==
    LET e == RunCommand(RunCommand(d, CMD_TERNARY_PUSH), CMD_TERNARY_POP) IN
    /\ e.state = STATE_IDLE
    /\ e.output = d.input
    /\ e.stack_ptr = d.stack_ptr
    /\ \A s \in 0 .. (d.stack_ptr - 1) : e.stack[s] = d.stack[s]
    /\ e.status = 0

(* C19, as stated: LIFO round trip, and POP always returns the most recently
   pushed vector not yet removed -- also when a command that neither pushes
   nor removes a vector (NOT) ran between the PUSH and the POP. *)
C19_PopReturnsLastPushed ==
    (pThis.state = STATE_IDLE /\ pThis.stack_ptr < STACK_DEPTH) =>
        /\ PushPopRoundTrip(pThis)
        /\ RunCommand(RunCommand(RunCommand(pThis, CMD_TERNARY_PUSH),
                                 CMD_TERNARY_NOT), CMD_TERNARY_POP).output = pThis.input

(* C19, amended: LIFO round trip; POP returns what the top slot holds and
   decrements stack_ptr.  In a run of PUSH and POP commands that is the most
   recently pushed vector not yet removed: after two pushes of different
   vectors the first POP returns the second vector and the second POP the
   first.  After PUSH and NOT, POP returns the negation of the vector
   pushed. *)
C19_LifoRoundTrip ==
    /\ (pThis.state = STATE_IDLE /\ pThis.stack_ptr < STACK_DEPTH) =>
         /\ PushPopRoundTrip(pThis)
         /\ RunCommand(RunCommand(RunCommand(pThis, CMD_TERNARY_PUSH),
                                  CMD_TERNARY_NOT), CMD_TERNARY_POP).output
                = [i \in Lanes |-> 0 - pThis.input[i]]
    /\ (pThis.state = STATE_IDLE /\ pThis.stack_ptr >= 1) =>
         LET e == RunCommand(pThis, CMD_TERNARY_POP) IN
         /\ e.output = pThis.stack[pThis.stack_ptr - 1]
         /\ e.stack_ptr = pThis.stack_ptr - 1
         /\ e.stack = pThis.stack
         /\ e.status = 0
    /\ (/\ pThis.state = STATE_IDLE
        /\ pThis.stack_ptr + 2 <= STACK_DEPTH
        /\ pThis.operand_words + 1 < pThis.operand_count) =>
         \A v \in PatternWords :
            LET d1 == RunCommand(pThis, CMD_TERNARY_PUSH)
                d2 == ternary_mmio_write(d1, InputWordAddr(0), v, SIZEOF_UINT32)
                d3 == RunCommand(d2, CMD_TERNARY_PUSH)
                d4 == RunCommand(d3, CMD_TERNARY_POP)
                d5 == RunCommand(d4, CMD_TERNARY_POP)
            IN  /\ d3.stack_ptr = pThis.stack_ptr + 2
                /\ d4.output = d2.input
                /\ d5.output = pThis.input
                /\ d5.stack_ptr = pThis.stack_ptr
                /\ d5.status = 0

(* a POP is over: output is the vector input still holds, the slot it was
   popped from holds it too, no status bit is set *)
C19_Witness ==
    /\ pThis.state = STATE_IDLE
    /\ ticks = 4
    /\ pThis.command = CMD_TERNARY_POP
    /\ pThis.status = 0
    /\ pThis.stack_ptr < STACK_DEPTH
    /\ pThis.input # ZeroVector
    /\ pThis.output = pThis.input
    /\ pThis.stack[pThis.stack_ptr] = pThis.input

(* the fresh device after n 4-byte writes of word value v to INPUT word 0 *)
RECURSIVE FreshAfterInputWrites(_, _)
FreshAfterInputWrites(n, v) ==
    IF n = 0 THEN devTernaryConstruct
    ELSE ternary_mmio_write(FreshAfterInputWrites(n - 1, v), InputWordAddr(0), v, SIZEOF_UINT32)

(* C20: arming by operand completion re-runs the stored command.  In IDLE,
   a 4-byte write to any INPUT word counts one in operand_words, whichever
   word it is; the write that brings the count to operand_count resets it to
   0 and moves the state to FETCH, and no INPUT write changes command or
   status, so the EXECUTE tick that follows runs the stored command and the
   status bits set before are still set after it.  A command cycle leaves the
   count as it is.  On a fresh device WORDS_PER_OPERAND writes to INPUT word 0
   arm a NOP. *)
C20_OperandCompletionArms ==
    /\ pThis.state = STATE_IDLE =>
         \A k \in WordIndexes, v \in PatternWords :
            LET w == ternary_mmio_write(pThis, InputWordAddr(k), v, SIZEOF_UINT32) IN
            /\ w.command = pThis.command
            /\ w.status = pThis.status
            /\ IF pThis.operand_words + 1 >= pThis.operand_count
               THEN /\ w.operand_words = 0
                    /\ w.state = STATE_FETCH
                    /\ ternary_timer(w).state = STATE_EXECUTE
                    /\ ternary_timer(w).command = pThis.command
                    /\ ternary_timer(ternary_timer(w))
                         = [Execute(ternary_timer(w)) EXCEPT !.state = STATE_WRITEBACK]
                    /\ StatusKeeps(pThis.status, ternary_timer(ternary_timer(w)).status)
               ELSE /\ w.operand_words = pThis.operand_words + 1
                    /\ w.state = STATE_IDLE
    /\ pThis.state = STATE_IDLE =>
         \A c \in DataCommands : RunCommand(pThis, c).operand_words = pThis.operand_words
    /\ ternary_timer(pThis).operand_words = pThis.operand_words
    /\ \A v \in PatternWords :
         LET w == FreshAfterInputWrites(WORDS_PER_OPERAND, v) IN
         /\ FreshAfterInputWrites(WORDS_PER_OPERAND - 1, v).state = STATE_IDLE
         /\ w.state = STATE_FETCH
         /\ w.command = CMD_TERNARY_NOP
         /\ ternary_timer(ternary_timer(w)).temp_result = ZeroVector

(* the write of an INPUT word armed the FSM: the state is FETCH with the
   earlier POP still stored and its StackUnderflow still set, which a COMMAND
   write would have cleared *)
C20_Witness ==
    /\ pThis.state = STATE_FETCH
    /\ ticks = 0
    /\ pThis.command = CMD_TERNARY_POP
    /\ pThis.status = STATUS_ERROR_STACK_UNDERFLOW
    /\ pThis.operand_words = 0

(* the EXECUTE cases that assign no lane of temp_result: an underflow, a PUSH
   onto the full stack, and an opcode the switch has no case for *)
LeavesResultUntouched(d) ==
    \/ UnderflowCase(d)
    \/ d.command = CMD_TERNARY_PUSH /\ d.stack_ptr >= STACK_DEPTH
    \/ d.command \notin {CMD_TERNARY_NOP, CMD_TERNARY_ADD, CMD_TERNARY_NOT,
                         CMD_TERNARY_AND, CMD_TERNARY_PUSH, CMD_TERNARY_POP,
                         CMD_TERNARY_SHA3}

(* the status bit the failing case sets *)
FailureFlag(d) ==
    IF UnderflowCase(d) THEN STATUS_ERROR_STACK_UNDERFLOW
    ELSE IF d.command = CMD_TERNARY_PUSH THEN STATUS_ERROR_STACK_OVERFLOW
    ELSE STATUS_ERROR_INVALID_COMMAND

(* C21: result-buffer coherence.  In every reachable state whose FSM state is
   IDLE, FETCH, EXECUTE or DONE, temp_result equals output lane for lane.
   When EXECUTE dispatches a command that fails -- an underflow, a PUSH onto
   the full stack, an unknown opcode -- the tick sets the error bit of the case and leaves
   temp_result as it was, and the WRITEBACK tick that follows stores in output
   the vector output held before. *)
C21_ResultBufferCoherence ==
    /\ pThis.state \in {STATE_IDLE, STATE_FETCH, STATE_EXECUTE, STATE_DONE} =>
         \A i \in Lanes : pThis.temp_result[i] = pThis.output[i]
    /\ (pThis.state = STATE_EXECUTE /\ LeavesResultUntouched(pThis)) =>
         LET e == ternary_timer(pThis) IN
         /\ e.state = STATE_WRITEBACK
         /\ HasFlag(e.status, FailureFlag(pThis))
         /\ e.temp_result = pThis.temp_result
         /\ e.output = pThis.output
         /\ ternary_timer(e).state = STATE_DONE
         /\ ternary_timer(e).output = pThis.output
         /\ ternary_timer(e).temp_result = pThis.output

(* an unknown opcode has been through EXECUTE and WRITEBACK: InvalidCommand is
   set and output and temp_result both hold the vector an earlier PUSH left *)
C21_Witness ==
    /\ pThis.state = STATE_DONE
    /\ pThis.command = INVALID_COMMAND
    /\ HasFlag(pThis.status, STATUS_ERROR_INVALID_COMMAND)
    /\ pThis.output # ZeroVector
    /\ pThis.temp_result = pThis.output

(* a PUSH is in WRITEBACK with its result not yet stored: this is the one FSM
   state in which temp_result and output differ *)
C21_WritebackDiffers ==
    /\ pThis.state = STATE_WRITEBACK
    /\ pThis.command = CMD_TERNARY_PUSH
    /\ pThis.temp_result # pThis.output

=============================================================================
